---- MODULE Spec2Model ----
(***************************************************************************)
(* Air-quality agent: the event handler (services/telex_integration.py),   *)
(* the AQI fetch (services/aqi_service.py), the validators                 *)
(* (utils/validators.py) and two endpoints of main.py that share the       *)
(* session store: the /ws stream and the JSON-RPC adapter /a2a/aqi.        *)
(*                                                                         *)
(* Python strings are sequences of one-character strings, so that strip(), *)
(* split(), isalpha(), the regular expressions and the f-strings are       *)
(* computed character by character.  Python's None is NoneStr where a      *)
(* string is expected and PyNone where a provider value is expected.       *)
(***************************************************************************)
EXTENDS Integers, Sequences, FiniteSets, TLC

(* ---------------------------------------------------------------------- *)
(* Characters and the str methods the code uses                           *)
(* ---------------------------------------------------------------------- *)

UpperCase == <<"A","B","C","D","E","F","G","H","I","J","K","L","M","N","O","P","Q","R","S","T","U",
      "V","W","X","Y","Z">>

LowerCase == <<"a","b","c","d","e","f","g","h","i","j","k","l","m","n","o","p","q","r","s","t","u",
      "v","w","x","y","z">>

Digits == <<"0","1","2","3","4","5","6","7","8","9">>

Range(f) == {f[i] : i \in DOMAIN f}

Letters == Range(UpperCase) \cup Range(LowerCase)

WordChars == Letters \cup Range(Digits) \cup {"_"}

\* [a-zA-Z], and str.isalpha() on the ASCII characters the model draws
IsLetter(c) == c \in Letters

\* \s, and the characters str.strip() / str.split() treat as whitespace
IsSpace(c) == c \in {" ", "\t", "\n"}

\* \w, which decides the word boundary \b
IsWordChar(c) == c \in WordChars

LowerOf ==
    [c \in Range(UpperCase) |->
        LowerCase[CHOOSE i \in DOMAIN UpperCase : UpperCase[i] = c]]

\* case folding of flags=re.I
ToLower(c) == IF c \in DOMAIN LowerOf THEN LowerOf[c] ELSE c

\* Optional[str] = None
NoneStr == <<"<None>">>

RECURSIVE LStrip(_)
LStrip(s) ==
    IF s = <<>> THEN s
    ELSE IF IsSpace(Head(s)) THEN LStrip(Tail(s)) ELSE s

RECURSIVE RStrip(_)
RStrip(s) ==
    IF s = <<>> THEN s
    ELSE IF IsSpace(s[Len(s)]) THEN RStrip(SubSeq(s, 1, Len(s) - 1)) ELSE s

\* str.strip()
Strip(s) == RStrip(LStrip(s))

\* len(str.split()): the number of maximal runs of non-whitespace
SplitLen(s) ==
    Cardinality({i \in 1..Len(s) :
        /\ ~IsSpace(s[i])
        /\ (i = 1 \/ IsSpace(s[i - 1]))})

\* str.isalpha()
IsAlpha(s) == Len(s) > 0 /\ \A i \in 1..Len(s) : IsLetter(s[i])

\* str(n) for an int
RECURSIVE NatToStr(_)
NatToStr(n) ==
    IF n < 10 THEN <<Digits[n + 1]>>
    ELSE NatToStr(n \div 10) \o <<Digits[(n % 10) + 1]>>

IntToStr(n) == IF n < 0 THEN <<"-">> \o NatToStr(0 - n) ELSE NatToStr(n)

(* ---------------------------------------------------------------------- *)
(* utils/validators.py                                                    *)
(* ---------------------------------------------------------------------- *)

\* the alternation (right now|today|currently|please|now), in its order
StopWords ==
    << <<"r","i","g","h","t"," ","n","o","w">>,
       <<"t","o","d","a","y">>,
       <<"c","u","r","r","e","n","t","l","y">>,
       <<"p","l","e","a","s","e">>,
       <<"n","o","w">> >>

\* position p lies between s[p-1] and s[p]; \b holds when exactly one is \w
WordBoundary(s, p) ==
    LET w(q) == q >= 1 /\ q <= Len(s) /\ IsWordChar(s[q])
    IN  w(p - 1) # w(p)

\* the stop word w matches at i, ignoring case, between two word boundaries
StopWordAt(s, i, w) ==
    /\ i + Len(w) - 1 <= Len(s)
    /\ \A k \in 1..Len(w) : ToLower(s[i + k - 1]) = w[k]
    /\ WordBoundary(s, i)
    /\ WordBoundary(s, i + Len(w))

\* length of the match of the alternation at i (first alternative that
\* matches wins), 0 when there is none
StopLenAt(s, i) ==
    LET hits == {j \in DOMAIN StopWords : StopWordAt(s, i, StopWords[j])}
    IN  IF hits = {} THEN 0
        ELSE Len(StopWords[CHOOSE j \in hits : \A h \in hits : j <= h])

RECURSIVE RemoveStopWordsFrom(_, _)
RemoveStopWordsFrom(s, i) ==
    IF i > Len(s) THEN <<>>
    ELSE LET n == StopLenAt(s, i)
         IN  IF n > 0 THEN RemoveStopWordsFrom(s, i + n)
             ELSE <<s[i]>> \o RemoveStopWordsFrom(s, i + 1)

\* re.sub(r"\b(right now|today|currently|please|now)\b", "", s, flags=re.I)
RemoveStopWords(s) == RemoveStopWordsFrom(s, 1)

\* re.sub(r"[^a-zA-Z\s,]", "", s)
KeepLocationChars(s) ==
    SelectSeq(s, LAMBDA c : IsLetter(c) \/ IsSpace(c) \/ c = ",")

validate_location(location) ==
    IF location = NoneStr \/ location = <<>> \/ Strip(location) = <<>>
    THEN NoneStr
    ELSE LET normalized ==
                 Strip(KeepLocationChars(RemoveStopWords(Strip(location))))
         IN  IF normalized = <<>> THEN NoneStr ELSE normalized

\* Python values the AQI provider's JSON can put in data.aqi
PyNone == [t |-> "none"]

PyInt(n) == [t |-> "int", v |-> n]

PyStr(s) == [t |-> "str", v |-> s]

\* the bounds of validate_aqi's range test
AqiMin == 0

AqiMax == 500

\* int(s) for a str: optional sign and decimal digits, surrounding
\* whitespace ignored; PyNone stands for the ValueError
RECURSIVE DigitsToNat(_)
DigitsToNat(s) ==
    IF s = <<>> THEN 0
    ELSE 10 * DigitsToNat(SubSeq(s, 1, Len(s) - 1))
         + ((CHOOSE i \in DOMAIN Digits : Digits[i] = s[Len(s)]) - 1)

IntOfStr(s) ==
    LET b == Strip(s)
        signed == b # <<>> /\ Head(b) \in {"-", "+"}
        d == IF signed THEN Tail(b) ELSE b
    IN  IF d = <<>> \/ \E i \in 1..Len(d) : d[i] \notin Range(Digits)
        THEN PyNone
        ELSE IF signed /\ Head(b) = "-" THEN PyInt(0 - DigitsToNat(d))
             ELSE PyInt(DigitsToNat(d))

validate_aqi(aqi) ==
    IF aqi = PyNone THEN PyNone
    ELSE LET coerced == IF aqi.t = "int" THEN aqi ELSE IntOfStr(aqi.v)
         IN  IF coerced = PyNone THEN PyNone
             ELSE IF AqiMin <= coerced.v /\ coerced.v <= AqiMax
                  THEN coerced ELSE PyNone

SummaryFallback == <<"S","o","r","r","y",","," ","I"," ","c","o","u","l","d","n","'","t"," ","g","e","n",
      "e","r","a","t","e"," ","a"," ","s","u","m","m","a","r","y",".">>

validate_summary(summary) ==
    IF summary = NoneStr \/ summary = <<>> \/ Strip(summary) = <<>>
    THEN SummaryFallback
    ELSE Strip(summary)

build_telex_response(location, aqi, summary) ==
    [type |-> "message",
     data |-> [location |-> validate_location(location),
               aqi      |-> validate_aqi(aqi),
               summary  |-> validate_summary(summary)]]

(* ---------------------------------------------------------------------- *)
(* services/aqi_service.py                                                *)
(* ---------------------------------------------------------------------- *)

\* What one call of fetch_aqi meets: the WAQI_TOKEN setting, how the HTTP
\* request ends, and the JSON document {status, data: {aqi}} it returns.
ProviderAqiValues ==
    {PyInt(0 - 1), PyInt(42), PyInt(501), PyStr(<<"-">>)}

ProviderReplies ==
    {[token |-> FALSE, http |-> "unsent", status |-> "unused",
      hasAqi |-> FALSE, aqi |-> PyNone]}
    \cup
    {[token |-> TRUE, http |-> h, status |-> "unused",
      hasAqi |-> FALSE, aqi |-> PyNone] :
        h \in {"timeout", "connection_error"}}
    \cup
    {[token |-> TRUE, http |-> "json", status |-> "error",
      hasAqi |-> FALSE, aqi |-> PyNone],
     [token |-> TRUE, http |-> "json", status |-> "ok",
      hasAqi |-> FALSE, aqi |-> PyNone]}
    \cup
    {[token |-> TRUE, http |-> "json", status |-> "ok",
      hasAqi |-> TRUE, aqi |-> a] : a \in ProviderAqiValues}

\* the reply is a failure of the provider: no usable integer reading
ProviderFailed(reply) ==
    \/ ~reply.token
    \/ reply.http # "json"
    \/ reply.status # "ok"
    \/ ~reply.hasAqi
    \/ reply.aqi.t # "int"

fetch_aqi(location, reply) ==
    IF ~reply.token THEN PyNone
    ELSE IF reply.http # "json" THEN PyNone          \* except Exception
    ELSE IF reply.status = "ok"
         THEN IF reply.hasAqi THEN reply.aqi
              ELSE PyNone                            \* KeyError, caught
         ELSE PyNone

(* ---------------------------------------------------------------------- *)
(* services/telex_integration.py: location extraction                     *)
(* ---------------------------------------------------------------------- *)

\* What model.generate_content does for one prompt: it raises, or it
\* returns a response whose text is arbitrary.
GeminiRaises == [raised |-> TRUE, text |-> <<>>]

GeminiSays(s) == [raised |-> FALSE, text |-> s]

\* first index >= i of s that is not whitespace, Len(s) + 1 when none
RECURSIVE SkipSpaces(_, _)
SkipSpaces(s, i) ==
    IF i > Len(s) \/ ~IsSpace(s[i]) THEN i ELSE SkipSpaces(s, i + 1)

\* last index of the maximal run of [A-Za-z\s] that starts at i
RECURSIVE RunEnd(_, _)
RunEnd(s, i) ==
    IF i + 1 <= Len(s) /\ (IsLetter(s[i + 1]) \/ IsSpace(s[i + 1]))
    THEN RunEnd(s, i + 1) ELSE i

\* group(1) of r"in\s+([A-Za-z\s]+)[\?\.]?" matched at i, NoneStr when the
\* pattern does not match there.  \s+ is greedy; when what follows the
\* whitespace is no letter it gives one whitespace character back.
InGroupAt(s, i) ==
    IF ~(i + 2 <= Len(s) /\ s[i] = "i" /\ s[i + 1] = "n" /\ IsSpace(s[i + 2]))
    THEN NoneStr
    ELSE LET j == SkipSpaces(s, i + 2)
         IN  IF j <= Len(s) /\ IsLetter(s[j])
             THEN SubSeq(s, j, RunEnd(s, j))
             ELSE IF j - (i + 2) >= 2 THEN <<s[j - 1]>>
             ELSE NoneStr

\* re.search: the leftmost position where the pattern matches
InSearch(s) ==
    LET at == {i \in 1..Len(s) : InGroupAt(s, i) # NoneStr}
    IN  IF at = {} THEN NoneStr
        ELSE InGroupAt(s, CHOOSE i \in at : \A k \in at : i <= k)

RegexFallback(text) ==
    LET group == InSearch(text)
    IN  IF group = NoneStr THEN NoneStr
        ELSE validate_location(RemoveStopWords(Strip(group)))

\* "if not location" on an Optional[str]
Falsy(location) == location = NoneStr \/ location = <<>>

extract_location_gemini(text0, gemini) ==
    LET text == Strip(text0)
    IN  IF SplitLen(text) = 1 /\ IsAlpha(text)
        THEN validate_location(text)
        ELSE LET location ==
                     IF gemini.raised THEN NoneStr
                     ELSE validate_location(Strip(gemini.text))
             IN  IF Falsy(location) THEN RegexFallback(text)
                 ELSE location

(* ---------------------------------------------------------------------- *)
(* Texts users send and answers the language model gives                  *)
(* ---------------------------------------------------------------------- *)

Texts ==
    { <<"L","a","g","o","s">>,
      <<"n","o","w">>,
      <<" ","w","h","a","t"," ","a","b","o","u","t"," ","n","o","w","?"," ">>,
      <<"a","i","r"," ","i","n"," ","N","a","i","r","o","b","i"," ","t","o","d","a","y",
      "?">> }

GeminiOutcomes ==
    { GeminiRaises,
      GeminiSays(<<"N","a","i","r","o","b","i","\n">>),
      GeminiSays(<<"t","o","-","d","a","y">>) }

\* extract_location_gemini is a function of the stripped text and of the
\* language model's answer alone; it is evaluated once for each pair drawn
ExtractionTable ==
    [t \in {Strip(x) : x \in Texts \cup {<<>>}} |->
        [g \in GeminiOutcomes |-> extract_location_gemini(t, g)]]

Extracted(text, gemini) ==
    IF text \in DOMAIN ExtractionTable /\ gemini \in GeminiOutcomes
    THEN ExtractionTable[text][gemini]
    ELSE extract_location_gemini(text, gemini)

(* ---------------------------------------------------------------------- *)
(* services/telex_integration.py: handle_telex_event                      *)
(* ---------------------------------------------------------------------- *)

TelexResponse(type, location, aqi, summary) ==
    [type |-> type,
     data |-> [location |-> location, aqi |-> aqi, summary |-> summary]]

CouldNotDetermineSummary ==
    <<"S","o","r","r","y",","," ","I"," ","c","o","u","l","d","n","'","t"," ","d","e","t",
      "e","r","m","i","n","e"," ","t","h","e"," ","l","o","c","a","t","i","o","n"," ",
      "f","r","o","m"," ","y","o","u","r"," ","m","e","s","s","a","g","e",".">>

\* the early return when neither the text nor the session gives a location
CouldNotDetermineResponse ==
    TelexResponse("message", NoneStr, PyNone, CouldNotDetermineSummary)

FetchFailedSummary(location) ==
    <<"S","o","r","r","y",","," ","I"," ","c","o","u","l","d","n","'","t"," ","f","e","t",
      "c","h"," ","t","h","e"," ","a","i","r"," ","q","u","a","l","i","t","y"," ","f",
      "o","r"," ">> \o location \o <<".">>

LevelStrict(aqi) ==
    IF aqi < 50 THEN <<"g","o","o","d">>
    ELSE IF aqi < 100 THEN <<"m","o","d","e","r","a","t","e">>
    ELSE IF aqi < 150 THEN <<"u","n","h","e","a","l","t","h","y"," ","f","o","r"," ","s","e","n","s","i","t","i",
      "v","e"," ","g","r","o","u","p","s">>
    ELSE IF aqi < 200 THEN <<"u","n","h","e","a","l","t","h","y">>
    ELSE IF aqi < 300 THEN <<"v","e","r","y"," ","u","n","h","e","a","l","t","h","y">>
    ELSE <<"h","a","z","a","r","d","o","u","s">>

\* the if/elif chain that picks level
Level(aqi) ==
    IF aqi <= 50 THEN <<"g","o","o","d">>
    ELSE IF aqi <= 100 THEN <<"m","o","d","e","r","a","t","e">>
    ELSE IF aqi <= 150 THEN <<"u","n","h","e","a","l","t","h","y"," ","f","o","r"," ","s","e","n","s","i","t","i",
      "v","e"," ","g","r","o","u","p","s">>
    ELSE IF aqi <= 200 THEN <<"u","n","h","e","a","l","t","h","y">>
    ELSE IF aqi <= 300 THEN <<"v","e","r","y"," ","u","n","h","e","a","l","t","h","y">>
    ELSE <<"h","a","z","a","r","d","o","u","s">>

\* f"Air quality in {location} is {level} (AQI {aqi})."
ClassifiedSummary(location, level, aqi) ==
    <<"A","i","r"," ","q","u","a","l","i","t","y"," ","i","n"," ">> \o location \o <<" ","i","s"," ">> \o level
        \o <<" ","(","A","Q","I"," ">> \o IntToStr(aqi) \o <<")",".">>

\* str(e) of the TypeError that "aqi <= 50" raises for a str reading
TypeErrorMessage ==
    <<"'","<","=","'"," ","n","o","t"," ","s","u","p","p","o","r","t","e","d"," ","b","e",
      "t","w","e","e","n"," ","i","n","s","t","a","n","c","e","s"," ","o","f"," ","'",
      "s","t","r","'"," ","a","n","d"," ","'","i","n","t","'">>

ErrorResponseBlank(message) ==
    TelexResponse("error", NoneStr, PyNone, <<>>)

\* the except branch: TelexResponse(type="error", ..., summary=str(e))
ErrorResponse(message) ==
    TelexResponse("error", NoneStr, PyNone, message)

\* everything after the session write: fetch result -> response
AfterFetch(location, aqi) ==
    IF aqi = PyNone
    THEN build_telex_response(location, aqi, FetchFailedSummary(location))
    ELSE IF aqi.t # "int"
    THEN ErrorResponse(TypeErrorMessage)
    ELSE build_telex_response(location, aqi,
             ClassifiedSummary(location, Level(aqi.v), aqi.v))

ResolveWithoutMemory(extracted, last_location) == extracted

\* the extracted location, else the remembered one, else none
Resolve(extracted, last_location) ==
    IF ~Falsy(extracted) THEN extracted
    ELSE IF ~Falsy(last_location) THEN last_location
    ELSE NoneStr

(* ---------------------------------------------------------------------- *)
(* SESSION_MEMORY: a dict from session id to a dict object.  The inner    *)
(* dicts are objects with identity: store maps a session id to an object  *)
(* id, heap gives each object's "last_location" (NoneStr: key absent).    *)
(* ---------------------------------------------------------------------- *)

NoObj == 0

\* number of concurrent /ws connections the model opens
MaxConns == 1

\* uuid.uuid4() of each connection
UuidPool == <<"uuid-1", "uuid-2", "uuid-3">>

Conns == 1..MaxConns

SessionIds == {"default"} \cup {UuidPool[c] : c \in Conns}

\* handler invocations that can be suspended at the await at one time
Tasks == {"t1", "t2"}

ObjIds == 1..(Cardinality(SessionIds) + Cardinality(Tasks))

\* an object id no session and no suspended handler refers to
FreshObj(store, refs) ==
    CHOOSE o \in ObjIds :
        /\ o \notin Range(store) \cup refs
        /\ \A p \in ObjIds : p \notin Range(store) \cup refs => o <= p

\* objects nothing refers to any more are freed
Collect(store, heap, refs) ==
    [o \in ObjIds |-> IF o \in Range(store) \cup refs THEN heap[o] ELSE NoneStr]

\* the remembered location of sid as the store holds it
StoredLocation(store, heap, sid) ==
    IF store[sid] = NoObj THEN NoneStr ELSE heap[store[sid]]

session_get_setdefault(store, heap, sid, fresh) ==
    IF store[sid] # NoObj
    THEN [ref |-> store[sid], store |-> store, heap |-> heap]
    ELSE [ref |-> fresh, store |-> [store EXCEPT ![sid] = fresh],
          heap |-> [heap EXCEPT ![fresh] = NoneStr]]

session_get_copy(store, heap, sid, fresh) ==
    [ref |-> fresh, store |-> store,
     heap |-> [heap EXCEPT ![fresh] = StoredLocation(store, heap, sid)]]

\* session = SESSION_MEMORY.get(session_id or "default", {}): the stored
\* dict object itself, or a new empty dict that is not put in the store
session_get(store, heap, sid, fresh) ==
    IF store[sid] # NoObj
    THEN [ref |-> store[sid], store |-> store, heap |-> heap]
    ELSE [ref |-> fresh, store |-> store,
          heap |-> [heap EXCEPT ![fresh] = NoneStr]]

\* handle_telex_event from the line after the await to its return, for the
\* session object ref: the new store and heap, the response, and the
\* location fetch_aqi was called with (NoneStr: not called)
handle_resume(store, heap, ref, sid, extracted, reply) ==
    LET location == Resolve(extracted, heap[ref])
    IN  IF Falsy(location)
        THEN [store |-> store, heap |-> heap,
              response |-> CouldNotDetermineResponse,
              fetchedFor |-> NoneStr]
        ELSE [store |-> [store EXCEPT ![sid] = ref],
              heap |-> [heap EXCEPT ![ref] = location],
              response |-> AfterFetch(location, fetch_aqi(location, reply)),
              fetchedFor |-> location]

\* what a finished call leaves: the store, the heap without the dicts
\* nothing refers to any more, the response
Finished(r, extracted, refs) ==
    [store |-> r.store,
     heap |-> Collect(r.store, r.heap, refs),
     response |-> r.response,
     fetchedFor |-> r.fetchedFor,
     extracted |-> extracted]

\* lines 91-141 for the session object that session_get returned
WithSession(s, sid, extracted, reply) ==
    Finished(handle_resume(s.store, s.heap, s.ref, sid, extracted, reply),
             extracted, {})

\* handle_telex_event run without suspension (extract_location_gemini has no
\* suspension point of its own, so "await" returns without yielding)
handle_telex_event(store, heap, sid, text, gemini, reply) ==
    WithSession(session_get(store, heap, sid, FreshObj(store, {})), sid,
                Extracted(Strip(text), gemini), reply)

(* ---------------------------------------------------------------------- *)
(* Inputs the environment can send                                        *)
(* ---------------------------------------------------------------------- *)

\* number of requests / stream messages / handler invocations in one run
MaxEvents == 2

\* a request body or stream frame, as models.TelexEvent sees it
BodyNotJson == [json |-> FALSE, hasText |-> FALSE, text |-> <<>>]

BodyNoText == [json |-> TRUE, hasText |-> FALSE, text |-> <<>>]

BodyEvent(text) == [json |-> TRUE, hasText |-> TRUE, text |-> text]

Bodies == {BodyNotJson, BodyNoText} \cup {BodyEvent(t) : t \in Texts}

\* TelexEvent(**body) succeeds: type and data.text are present
ValidEvent(body) == body.json /\ body.hasText

\* a field or key that is not sent
Absent == "<absent>"

(* ---------------------------------------------------------------------- *)
(* State                                                                  *)
(* ---------------------------------------------------------------------- *)

VARIABLES
    SESSION_MEMORY,  \* session id -> object id of its dict, NoObj if no key
    heap,            \* object id -> that dict's "last_location"
    task,            \* handler invocations suspended at the await
    ws,              \* state of each /ws connection
    done,            \* the exchange the last step completed
    resolved,        \* history: location the latest resolving event of a session used
    pair,            \* history: two overlapping invocations for one session
    nEvents          \* exchanges started so far

vars == <<SESSION_MEMORY, heap, task, ws, done, resolved, pair, nEvents>>

NoResponse == TelexResponse("none", NoneStr, PyNone, <<>>)

NoReply == [token |-> FALSE, http |-> "uncalled", status |-> "unused",
            hasAqi |-> FALSE, aqi |-> PyNone]

NoRequest == [body |-> "none", jsonrpc |-> Absent, hasId |-> FALSE,
              method |-> Absent]

NoOut == [kind |-> "none", status |-> 0, code |-> 0, state |-> "",
          text |-> <<>>]

NoExchange ==
    [via |-> "none", conn |-> 0, sid |-> "default", called |-> FALSE,
     request |-> NoRequest, extracted |-> NoneStr, before |-> NoneStr,
     resolvedBefore |-> NoneStr, reply |-> NoReply, fetchedFor |-> NoneStr,
     response |-> NoResponse, out |-> NoOut, memoryChanged |-> FALSE]

IdleTask == [pc |-> "idle", sid |-> "default", text |-> <<>>, ref |-> NoObj]

NoPair == [n |-> 0, sid |-> "default", base |-> NoneStr, results |-> <<>>]

Init ==
    /\ SESSION_MEMORY = [s \in SessionIds |-> NoObj]
    /\ heap = [o \in ObjIds |-> NoneStr]
    /\ task = [t \in Tasks |-> IdleTask]
    /\ ws = [c \in Conns |-> "new"]
    /\ done = NoExchange
    /\ resolved = [s \in SessionIds |-> NoneStr]
    /\ pair = NoPair
    /\ nEvents = 0

\* the reply of fetch_aqi matters only when it is called
ReplyUsed(h, reply) == IF h.fetchedFor = NoneStr THEN NoReply ELSE reply

\* one call of handle_telex_event for session sid, and what it leaves in
\* the exchange record (memoryChanged compares the store before and after
\* the step, so the record is written after the store)
Called(via, conn, sid, h, reply, out, request) ==
    [via |-> via, conn |-> conn, sid |-> sid, called |-> TRUE,
     request |-> request, extracted |-> h.extracted,
     before |-> StoredLocation(SESSION_MEMORY, heap, sid),
     resolvedBefore |-> resolved[sid],
     reply |-> ReplyUsed(h, reply), fetchedFor |-> h.fetchedFor,
     response |-> h.response, out |-> out,
     memoryChanged |-> (SESSION_MEMORY' # SESSION_MEMORY \/ heap' # heap)]

NotCalled(via, conn, sid, out, request) ==
    [NoExchange EXCEPT
        !.via = via, !.conn = conn, !.sid = sid, !.out = out,
        !.request = request,
        !.memoryChanged = (SESSION_MEMORY' # SESSION_MEMORY \/ heap' # heap)]

\* the state change of one call of handle_telex_event
Apply(sid, h) ==
    /\ SESSION_MEMORY' = h.store
    /\ heap' = h.heap
    /\ resolved' = IF h.fetchedFor = NoneStr THEN resolved
                   ELSE [resolved EXCEPT ![sid] = h.fetchedFor]

Untouched == UNCHANGED <<SESSION_MEMORY, heap, resolved>>

(* ---------------------------------------------------------------------- *)
(* main.py: /ws                                                           *)
(* ---------------------------------------------------------------------- *)

\* the except branch: send_json({"type": "error", "data": {"message"}})
ErrorEnvelope(status) ==
    [NoOut EXCEPT !.kind = "error_envelope", !.status = status]

\* a TelexResponse dumped to the caller
ResponseOut(status) == [NoOut EXCEPT !.kind = "response", !.status = status]

\* accept, draw the session id, send the status message
ws_connect(c) ==
    /\ ws[c] = "new"
    /\ ws' = [ws EXCEPT ![c] = "open"]
    /\ Untouched
    /\ done' = NotCalled("ws_connect", c, UuidPool[c],
                         [NoOut EXCEPT !.kind = "status"], NoRequest)
    /\ UNCHANGED <<task, pair, nEvents>>

\* one turn of the "while True" loop.  The try statement encloses the whole
\* loop: an exception from receive_json or TelexEvent(**data) leaves the
\* loop, the except branch sends the error envelope and the endpoint
\* returns, which ends the connection.
ws_message(c, frame, gemini, reply) ==
    /\ ws[c] = "open"
    /\ nEvents < MaxEvents
    /\ nEvents' = nEvents + 1
    /\ UNCHANGED <<task, pair>>
    /\ IF ~ValidEvent(frame)
       THEN /\ Untouched
            /\ done' = NotCalled("ws", c, UuidPool[c], ErrorEnvelope(0),
                                 NoRequest)
            /\ ws' = [ws EXCEPT ![c] = "returned"]
       ELSE \E h \in {handle_telex_event(SESSION_MEMORY, heap, UuidPool[c],
                                           frame.text, gemini, reply)} :
                /\ Apply(UuidPool[c], h)
                /\ done' = Called("ws", c, UuidPool[c], h, reply,
                                  ResponseOut(0), NoRequest)
                /\ ws' = ws

\* WebSocketDisconnect raised by receive_json: logged, the endpoint returns
ws_disconnect(c) ==
    /\ ws[c] = "open"
    /\ ws' = [ws EXCEPT ![c] = "disconnected"]
    /\ Untouched
    /\ done' = NotCalled("ws_disconnect", c, UuidPool[c], NoOut, NoRequest)
    /\ UNCHANGED <<task, pair, nEvents>>

(* ---------------------------------------------------------------------- *)
(* main.py: POST /a2a/aqi                                                 *)
(* ---------------------------------------------------------------------- *)

TextPart(t) == [kind |-> "text", text |-> t]

DataPart == [kind |-> "data", text |-> NoneStr]

\* a message; hasParts = FALSE is a message whose parts is None
Msg(parts) == [hasParts |-> TRUE, parts |-> parts]

MsgNoParts == [hasParts |-> FALSE, parts |-> <<>>]

\* params with message / messages set or None
Params(hasMessage, message, hasMessages, messages) ==
    [hasMessage |-> hasMessage, message |-> message,
     hasMessages |-> hasMessages, messages |-> messages]

NoParams == Params(FALSE, MsgNoParts, FALSE, <<>>)

A2AParams ==
    { Params(TRUE, Msg(<<TextPart(<<" ","w","h","a","t"," ","a","b","o","u","t"," ","n","o","w","?"," ">>)>>), FALSE, <<>>),
      Params(TRUE, Msg(<<DataPart, TextPart(<<>>), TextPart(<<"L","a","g","o","s">>)>>),
             FALSE, <<>>),
      Params(TRUE, MsgNoParts, FALSE, <<>>),
      Params(FALSE, MsgNoParts, TRUE,
             << Msg(<<TextPart(<<"L","a","g","o","s">>)>>),
                Msg(<<TextPart(<<"a","i","r"," ","i","n"," ","N","a","i","r","o","b","i"," ","t","o","d","a","y",
      "?">>)>>) >>),
      NoParams }

Methods == {"message/send", "execute", "tasks/get"}

\* params are read only by a supported method of a well-formed envelope
A2ARequests ==
    { [body |-> b, jsonrpc |-> Absent, hasId |-> FALSE, method |-> Absent,
       params |-> NoParams] : b \in {"not_json", "not_object"} }
    \cup
    { [body |-> "object", jsonrpc |-> j, hasId |-> i, method |-> m,
       params |-> p] :
          j \in {"2.0", "1.0", Absent}, i \in BOOLEAN, m \in Methods,
          p \in {NoParams} }
    \cup
    { [body |-> "object", jsonrpc |-> "2.0", hasId |-> TRUE, method |-> m,
       params |-> p] :
          m \in {"message/send", "execute"}, p \in A2AParams }

\* what the exchange record keeps of a request
Envelope(req) ==
    [body |-> req.body, jsonrpc |-> req.jsonrpc, hasId |-> req.hasId,
     method |-> req.method]

EnvelopeMalformedBoth(req) == req.jsonrpc # "2.0" /\ ~req.hasId

\* body.get("jsonrpc") != "2.0" or "id" not in body
EnvelopeMalformed(req) == req.jsonrpc # "2.0" \/ ~req.hasId

\* JSONRPCRequest(**body), of modelss/a2a.py: an envelope that carries
\* jsonrpc, id, method and params parses, whatever its method
JSONRPCRequest(req) == req.method # Absent

\* next((p.text for p in parts if p.kind == "text" and p.text), "")
RECURSIVE FirstText(_)
FirstText(parts) ==
    IF parts = <<>> THEN <<>>
    ELSE IF Head(parts).kind = "text" /\ ~Falsy(Head(parts).text)
         THEN Head(parts).text
         ELSE FirstText(Tail(parts))

\* the branch for "message/send": [raised, text]
MessageSendText(p) ==
    LET found == p.hasMessage \/ (p.hasMessages /\ p.messages # <<>>)
        message == IF p.hasMessage THEN p.message
                   ELSE IF found THEN p.messages[Len(p.messages)]
                   ELSE MsgNoParts
        parts == IF found /\ message.hasParts THEN message.parts ELSE <<>>
    IN  [raised |-> FALSE, text |-> FirstText(parts)]

\* the branch for "execute": iterating message.parts raises when it is None
ExecuteText(p) ==
    LET useList == p.hasMessages /\ p.messages # <<>>
        found == useList \/ p.hasMessage
        message == IF useList THEN p.messages[Len(p.messages)]
                   ELSE IF found THEN p.message
                   ELSE MsgNoParts
    IN  IF ~found THEN [raised |-> FALSE, text |-> <<>>]
        ELSE IF ~message.hasParts THEN [raised |-> TRUE, text |-> <<>>]
        ELSE [raised |-> FALSE, text |-> FirstText(message.parts)]

\* a JSON-RPC error object with its HTTP status
RpcError(status, code) ==
    [NoOut EXCEPT !.kind = "rpc_error", !.status = status, !.code = code]

\* JSONRPCResponse(result=TaskResult(status=TaskStatus(state="completed",
\* message=<agent message with the summary>), history=[that message]))
RpcResult(response) ==
    [NoOut EXCEPT !.kind = "rpc_result", !.status = 200,
                  !.state = "completed", !.text = response.data.summary]

a2a_aqi_endpoint(req, gemini, reply) ==
    /\ nEvents < MaxEvents
    /\ nEvents' = nEvents + 1
    /\ UNCHANGED <<task, ws, pair>>
    /\ LET refuse(out) ==
               /\ Untouched
               /\ done' = NotCalled("a2a", 0, "default", out, Envelope(req))
           extracted ==
               IF req.method = "message/send" THEN MessageSendText(req.params)
               ELSE ExecuteText(req.params)
       IN  IF req.body = "not_json" THEN refuse(RpcError(500, 0 - 32603))
           ELSE IF req.body = "not_object"
           \* body.get raises, and raises again inside the except branch
           THEN refuse([NoOut EXCEPT !.kind = "unhandled", !.status = 500])
           ELSE IF EnvelopeMalformed(req)
           THEN refuse(RpcError(400, 0 - 32600))
           ELSE IF ~JSONRPCRequest(req)
           THEN refuse(RpcError(500, 0 - 32603))
           ELSE IF req.method \notin {"message/send", "execute"}
           THEN refuse(RpcError(400, 0 - 32601))
           ELSE IF extracted.raised
           THEN refuse(RpcError(500, 0 - 32603))
           ELSE \E h \in {handle_telex_event(SESSION_MEMORY, heap, "default",
                                               extracted.text, gemini, reply)} :
                    /\ Apply("default", h)
                    /\ done' = Called("a2a", 0, "default", h, reply,
                                      RpcResult(h.response), Envelope(req))

(* ---------------------------------------------------------------------- *)
(* handle_telex_event with the await as a scheduling point                *)
(* ---------------------------------------------------------------------- *)

\* number of handler invocations in one run with interleaving
MaxCalls == 3

InFlight == {t \in Tasks : task[t].pc = "await"}

Refs(ts) == {task[t].ref : t \in ts}

\* lines 84-91: strip the text, load the session, reach the await
begin_handle(t, sid, text) ==
    /\ task[t].pc = "idle"
    /\ nEvents < MaxCalls
    /\ nEvents' = nEvents + 1
    /\ LET s == session_get(SESSION_MEMORY, heap, sid,
                            FreshObj(SESSION_MEMORY, Refs(InFlight)))
       IN  /\ SESSION_MEMORY' = s.store
           /\ heap' = s.heap
           /\ task' = [task EXCEPT ![t] =
                  [pc |-> "await", sid |-> sid, text |-> Strip(text),
                   ref |-> s.ref]]
    /\ pair' = IF InFlight = {}
               THEN [n |-> 1, sid |-> sid,
                     base |-> StoredLocation(SESSION_MEMORY, heap, sid),
                     results |-> <<>>]
               ELSE IF pair.n = 1 /\ pair.sid = sid /\ pair.results = <<>>
               THEN [pair EXCEPT !.n = 2]
               ELSE NoPair
    /\ UNCHANGED <<ws, done, resolved>>

\* the suspended invocation k runs from the await to its return
Resumed(k, extracted, reply, refs) ==
    Finished(handle_resume(SESSION_MEMORY, heap, k.ref, k.sid, extracted,
                           reply),
             extracted, refs)

\* lines 91-141: the extraction returns and the handler runs to its return
end_handle(t, gemini, reply) ==
    /\ task[t].pc = "await"
    /\ \E h \in {Resumed(task[t], Extracted(task[t].text, gemini), reply,
                           Refs(InFlight \ {t}))} :
           /\ Apply(task[t].sid, h)
           /\ pair' = IF pair.n = 0 THEN pair
                      ELSE [pair EXCEPT !.results = Append(@,
                              [extracted |-> h.extracted,
                               reply |-> ReplyUsed(h, reply),
                               response |-> h.response])]
    /\ task' = [task EXCEPT ![t] = IdleTask]
    /\ UNCHANGED <<ws, done, nEvents>>

\* one event after the other, on the remembered location alone: what a
\* call of handle_telex_event that nothing interleaves with does
Sequential(last, e) ==
    LET location == Resolve(e.extracted, last)
    IN  IF Falsy(location)
        THEN [last |-> last, response |-> CouldNotDetermineResponse]
        ELSE [last |-> location,
              response |-> AfterFetch(location,
                                      fetch_aqi(location, e.reply))]

(* ---------------------------------------------------------------------- *)
(* Specifications                                                         *)
(* ---------------------------------------------------------------------- *)

\* the services are contacted only for an input that reaches the handler;
\* for the others no outcome of theirs is drawn
GeminiFor(reaches) == IF reaches THEN GeminiOutcomes ELSE {GeminiRaises}

RepliesFor(reaches) == IF reaches THEN ProviderReplies ELSE {NoReply}

Dispatched(q) ==
    /\ q.body = "object"
    /\ q.jsonrpc = "2.0"
    /\ q.hasId
    /\ q.method \in {"message/send", "execute"}

Next ==
    \/ \E c \in Conns : ws_connect(c)
    \/ \E c \in Conns, b \in Bodies :
          \E g \in GeminiFor(ValidEvent(b)), r \in RepliesFor(ValidEvent(b)) :
              ws_message(c, b, g, r)
    \/ \E c \in Conns : ws_disconnect(c)
    \/ \E q \in A2ARequests :
          \E g \in GeminiFor(Dispatched(q)), r \in RepliesFor(Dispatched(q)) :
              a2a_aqi_endpoint(q, g, r)

\* every endpoint runs handle_telex_event to its return in one step
Spec == Init /\ [][Next]_vars

\* one failing reply, one reading and one reading that is no number
AwaitReplies ==
    {r \in ProviderReplies :
        \/ r.http = "timeout"
        \/ r.hasAqi /\ r.aqi \in {PyInt(42), PyStr(<<"-">>)}}

NextAwait ==
    \/ \E t \in Tasks, s \in SessionIds, x \in Texts : begin_handle(t, s, x)
    \/ \E t \in Tasks, g \in GeminiOutcomes, r \in AwaitReplies :
          end_handle(t, g, r)

\* handler invocations that may be suspended at the await and interleave
SpecAwait == Init /\ [][NextAwait]_vars

\* readings on either side of validate_aqi's range that the model draws
Margin == 3

Readings == (AqiMin - Margin)..(AqiMax + Margin)

OkReply(n) ==
    [token |-> TRUE, http |-> "json", status |-> "ok", hasAqi |-> TRUE,
     aqi |-> PyInt(n)]

SendLagos ==
    [body |-> "object", jsonrpc |-> "2.0", hasId |-> TRUE,
     method |-> "message/send",
     params |-> Params(TRUE, Msg(<<TextPart(<<"L","a","g","o","s">>)>>), FALSE, <<>>)]

\* a request for Lagos that the provider answers with reading n
NextReadings ==
    \E n \in Readings : a2a_aqi_endpoint(SendLagos, GeminiRaises, OkReply(n))

\* every integer reading of the range, classified by the handler
SpecReadings == Init /\ [][NextReadings]_vars

(* ---------------------------------------------------------------------- *)
(* Properties                                                             *)
(* ---------------------------------------------------------------------- *)

Summary == done.response.data.summary

\* the last step called handle_telex_event and no location came out of the
\* text
NothingExtracted == done.called /\ Falsy(done.extracted)

\* C1: an event of a session without a remembered location whose text
\* yields no location is answered with kind "message", location none, aqi
\* none and the could-not-determine summary, fetch_aqi is not called, and
\* SESSION_MEMORY is the same after the call as before it.
C1_UnresolvedLeavesNoTrace ==
    (NothingExtracted /\ Falsy(done.before)) =>
        /\ done.response.type = "message"
        /\ done.response.data.location = NoneStr
        /\ done.response.data.aqi = PyNone
        /\ Summary = CouldNotDetermineSummary
        /\ done.fetchedFor = NoneStr
        /\ ~done.memoryChanged

\* an unresolvable event of a new session, while another session remembers
\* a location
C1_Witness ==
    /\ NothingExtracted
    /\ Falsy(done.before)
    /\ \E s \in SessionIds :
           s # done.sid /\ StoredLocation(SESSION_MEMORY, heap, s) # NoneStr

\* C2: the stored lastLocation of every session is the location used by
\* the latest event of that session that had one (extracted or remembered),
\* also when that event's fetch failed or its classification raised; and an
\* event without extractable location of a session that resolved a location
\* before is answered for that stored location, never with the
\* could-not-determine response.
C2_MemoryPersists ==
    /\ \A s \in SessionIds :
           StoredLocation(SESSION_MEMORY, heap, s) = resolved[s]
    /\ (NothingExtracted /\ done.resolvedBefore # NoneStr) =>
           /\ done.fetchedFor = done.resolvedBefore
           /\ done.before = done.resolvedBefore
           /\ StoredLocation(SESSION_MEMORY, heap, done.sid)
                  = done.resolvedBefore
           /\ Summary # CouldNotDetermineSummary

\* a follow-up without location, answered with a reading for the location
\* the session remembers
C2_Witness ==
    /\ NothingExtracted
    /\ done.resolvedBefore = <<"L","a","g","o","s">>
    /\ done.response.data.location = <<"L","a","g","o","s">>
    /\ done.response.data.aqi = PyInt(42)

\* C3: every response of handle_telex_event carries a summary that is a
\* non-empty string, on the success path, the could-not-determine path, the
\* fetch-failure path and the caught-exception path.
C3_SummaryNonEmpty ==
    done.called => (Summary # NoneStr /\ Len(Summary) > 0)

\* a response of kind "error", built by the except branch
C3_Witness == done.called /\ done.response.type = "error"

\* C4: a failure of the AQI provider for a resolved location (timeout,
\* transport error, non-"ok" status, missing or non-numeric aqi) gives a
\* response of kind "message" with aqi none and the could-not-fetch summary,
\* never kind "error".
C4_ProviderFailureIsNoResult ==
    (done.called /\ done.fetchedFor # NoneStr /\ ProviderFailed(done.reply)) =>
        /\ done.response.type = "message"
        /\ done.response.data.aqi = PyNone
        /\ Summary = FetchFailedSummary(done.fetchedFor)

\* the table of the classification, as ranges of readings
ReferenceTable ==
    { [lo |-> 0,   hi |-> 50,  label |-> <<"g","o","o","d">>],
      [lo |-> 51,  hi |-> 100, label |-> <<"m","o","d","e","r","a","t","e">>],
      [lo |-> 101, hi |-> 150, label |-> <<"u","n","h","e","a","l","t","h","y"," ","f","o","r"," ","s","e","n","s","i","t","i",
      "v","e"," ","g","r","o","u","p","s">>],
      [lo |-> 151, hi |-> 200, label |-> <<"u","n","h","e","a","l","t","h","y">>],
      [lo |-> 201, hi |-> 300, label |-> <<"v","e","r","y"," ","u","n","h","e","a","l","t","h","y">>],
      [lo |-> 301, hi |-> 500, label |-> <<"h","a","z","a","r","d","o","u","s">>] }

IntReading == done.called /\ done.reply.hasAqi /\ done.reply.aqi.t = "int"

\* C5: for every integer reading in 0..500 the summary names exactly one
\* label, the one of the row of the table the reading lies in.
C5_LevelMatchesTable ==
    (IntReading /\ done.reply.aqi.v \in 0..500) =>
        \A row \in ReferenceTable :
            (Summary = ClassifiedSummary(done.fetchedFor, row.label,
                                         done.reply.aqi.v))
            <=> (row.lo <= done.reply.aqi.v /\ done.reply.aqi.v <= row.hi)

\* the boundary reading 300, reported as very unhealthy
C5_Witness ==
    /\ IntReading
    /\ done.reply.aqi.v = 300
    /\ Summary = ClassifiedSummary(<<"L","a","g","o","s">>, <<"v","e","r","y"," ","u","n","h","e","a","l","t","h","y">>, 300)

\* C6: on /ws a malformed message, or an exception while one message is
\* handled, is answered with an error and the connection stays open for the
\* messages that follow.
C6_StreamSurvivesErrors ==
    (done.via = "ws"
        /\ (done.out.kind = "error_envelope" \/ done.response.type = "error"))
    => ws[done.conn] = "open"

\* C7: a malformed envelope (jsonrpc missing or not "2.0", or id missing)
\* is answered with -32600 whatever its method, a well-formed one with a
\* method other than "message/send" and "execute" with -32601; in both
\* cases handle_telex_event is not called and the session memory is left
\* as it was.
C7_EnvelopeErrors ==
    (done.via = "a2a" /\ done.request.body = "object") =>
        LET malformed == done.request.jsonrpc # "2.0" \/ ~done.request.hasId
            unsupported ==
                done.request.method \notin {"message/send", "execute"}
        IN  /\ malformed =>
                /\ done.out.kind = "rpc_error"
                /\ done.out.code = 0 - 32600
                /\ ~done.called
                /\ ~done.memoryChanged
            /\ (~malformed /\ unsupported) =>
                /\ done.out.kind = "rpc_error"
                /\ done.out.code = 0 - 32601
                /\ ~done.called
                /\ ~done.memoryChanged

\* an envelope without id for a supported method, refused with -32600
\* while the default session remembers a location
C7_Witness ==
    /\ done.via = "a2a"
    /\ done.request.jsonrpc = "2.0"
    /\ ~done.request.hasId
    /\ done.request.method = "message/send"
    /\ done.out.code = 0 - 32600
    /\ StoredLocation(SESSION_MEMORY, heap, "default") # NoneStr

\* C8: for a supported method a failure inside handle_telex_event is
\* answered with error -32603, and a result with status "completed" is
\* returned only for a response of kind "message".
C8_HandlerFailureIsRpcError ==
    (done.via = "a2a" /\ done.called) =>
        /\ done.out.state = "completed" => done.response.type = "message"
        /\ done.response.type = "error" =>
               (done.out.kind = "rpc_error" /\ done.out.code = 0 - 32603)

PairComplete == pair.n = 2 /\ Len(pair.results) = 2

\* C9: two invocations for one session that interleave at the await give
\* the responses and the final lastLocation of one of the two sequential
\* orders, for a session absent from the store and for one present.
C9_PairIsSerializable ==
    PairComplete =>
        \E i \in {1, 2} :
            LET a == pair.results[i]
                b == pair.results[3 - i]
            IN  \E first \in {Sequential(pair.base, a)} :
                \E second \in {Sequential(first.last, b)} :
                    /\ a.response = first.response
                    /\ b.response = second.response
                    /\ StoredLocation(SESSION_MEMORY, heap, pair.sid)
                           = second.last

\* both invocations loaded a session that remembered Lagos; the first to
\* return stored Nairobi, the second found no location in its text
C9_Witness ==
    /\ PairComplete
    /\ pair.base = <<"L","a","g","o","s">>
    /\ pair.results[1].extracted = <<"N","a","i","r","o","b","i">>
    /\ pair.results[2].extracted = NoneStr

\* C10: a summary of the form "Air quality in L is <label> (AQI n)." comes
\* with the aqi field n, for every integer reading n of the provider.
C10_SummaryReadingIsAqiField ==
    IntReading =>
        \A row \in ReferenceTable :
            (Summary = ClassifiedSummary(done.fetchedFor, row.label,
                                         done.reply.aqi.v))
            => done.response.data.aqi = done.reply.aqi

====
